---- MODULE Spec2Model ----
(***************************************************************************)
(* SpeechT5CTCTokenizer: CTC decoding of a sequence of token ids into text *)
(* plus character and word offsets                                         *)
(* (src/transformers/models/speecht5/tokenization_speecht5.py).            *)
(*                                                                         *)
(* A Python str is a sequence of one-character strings: "<pad>" is         *)
(* <<"<","p","a","d",">">>.  A Python list is a sequence.  None is <<>>    *)
(* and a value x that may be None is <<x>>.  self._word_delimiter_token,   *)
(* which holds a str, an int or None, is a record that carries its type.   *)
(***************************************************************************)
EXTENDS Integers, Sequences, FiniteSets, TLC

\* Longest id sequence handed to decode.
MaxLen == 3

\* Longest id sequence that is decoded twice in a row.
MaxRepeatLen == 2

\* Most id sequences in one batch_decode call.
MaxBatch == 2

\* Longest token list handed to _add_tokens.
MaxNew == 2

VARIABLES
    encoder,                      \* self.encoder, token -> id
    decoder,                      \* self.decoder, id -> token
    added_tokens_encoder,         \* self.added_tokens_encoder, token -> id
    added_tokens_decoder,         \* self.added_tokens_decoder, id -> token
    _additional_special_tokens,   \* self._additional_special_tokens
    _word_delimiter_token,        \* self._word_delimiter_token: a str, an int or None
    verbose,                      \* self.verbose
    do_lower_case,                \* self.do_lower_case
    replace_word_delimiter_char,  \* self.replace_word_delimiter_char
    sequences,                    \* batch_decode's argument
    token_ids,                    \* decode's argument
    kwargs,                       \* the call's keyword arguments
    tokens,                       \* _decode's `result`, the argument of convert_tokens_to_string;
                                  \* in an _add_tokens call its argument new_tokens
    frame,                        \* convert_tokens_to_string's locals and return value
    output,                       \* what the call returned
    pc,                           \* "idle" | "returned" | "raised" | "converted" |
                                  \* "batch_returned" | "batch_raised" | "added"
    last                          \* the call before this one: its arguments and its result

\* What the tokenizer object holds between calls.
tokenizer ==
    <<encoder, decoder, added_tokens_encoder, added_tokens_decoder,
      _additional_special_tokens, _word_delimiter_token, verbose, do_lower_case,
      replace_word_delimiter_char>>

vars == <<tokenizer, sequences, token_ids, kwargs, tokens, frame, output, pc, last>>

None == <<>>

Some(x) == <<x>>

\* The values self._word_delimiter_token can hold.
StrValue(s) == [type |-> "str", str |-> s, int |-> 0]

IntValue(n) == [type |-> "int", str |-> <<>>, int |-> n]

NoneValue == [type |-> "NoneType", str |-> <<>>, int |-> 0]

-----------------------------------------------------------------------------
(* The tokenizer's vocabulary and special tokens.                          *)

pad_token == <<"<", "p", "a", "d", ">">>

unk_token == <<"<", "u", "n", "k", ">">>

bos_token == <<"<", "s", ">">>

eos_token == <<"<", "/", "s", ">">>

Digits == <<"0", "1", "2", "3", "4", "5", "6", "7", "8", "9">>

\* str(n) for an int n >= 0.
RECURSIVE str_int(_)
str_int(n) == IF n < 10 THEN <<Digits[n + 1]>> ELSE str_int(n \div 10) \o <<Digits[(n % 10) + 1]>>

\* str(value) for a str, an int or None.
str(value) ==
    CASE value.type = "str" -> value.str
      [] value.type = "int" -> str_int(value.int)
      [] value.type = "NoneType" -> <<"N", "o", "n", "e">>

\* Mutant of word_delimiter_token: a stored id is resolved to its token, so that what the
\* word_delimiter_token_id setter stored acts as the delimiter it names.
word_delimiter_token_of_stored_id ==
    IF _word_delimiter_token.type = "NoneType" /\ verbose THEN None
    ELSE IF _word_delimiter_token.type = "int"
    THEN Some(IF _word_delimiter_token.int \in DOMAIN decoder
              THEN decoder[_word_delimiter_token.int] ELSE unk_token)
    ELSE Some(str(_word_delimiter_token))

\* Lines 159-167, the word_delimiter_token property: None (after logging) when nothing is
\* set and the tokenizer is verbose, otherwise str() of whatever is stored.
word_delimiter_token ==
    IF _word_delimiter_token.type = "NoneType" /\ verbose THEN None
    ELSE Some(str(_word_delimiter_token))

\* The tokens of the vocabulary file, in the order of their ids.
vocab_tokens == <<pad_token, unk_token, <<"|">>, <<"A">>, <<"B">> >>

\* json.load(vocab_file): token -> id.
vocab_file ==
    [t \in {vocab_tokens[i] : i \in 1..Len(vocab_tokens)} |->
        (CHOOSE i \in 1..Len(vocab_tokens) : vocab_tokens[i] = t) - 1]

vocab_size == Cardinality(DOMAIN decoder)

\* The ids a model head can emit: the vocabulary's and one id without an entry.
Ids == 0..vocab_size

_convert_token_to_id(token) ==
    IF token \in DOMAIN encoder THEN encoder[token] ELSE encoder[unk_token]

\* Mutant of _convert_id_to_token: an id without an entry resolves to the pad token.
convert_id_to_token_pad(index) ==
    IF index \in DOMAIN decoder THEN decoder[index] ELSE pad_token

_convert_id_to_token(index) ==
    IF index \in DOMAIN decoder THEN decoder[index] ELSE unk_token

\* PreTrainedTokenizer.convert_tokens_to_ids for one token: the added tokens first.
convert_tokens_to_ids(token) ==
    IF token \in DOMAIN added_tokens_encoder THEN added_tokens_encoder[token]
    ELSE _convert_token_to_id(token)

\* PreTrainedTokenizer.__len__: the vocabulary and the added tokens.
__len__ == vocab_size + Cardinality(DOMAIN added_tokens_encoder)

\* SpecialTokensMixin.all_special_ids: the ids of bos, eos, unk, pad and the additional
\* special tokens.
all_special_ids ==
    {convert_tokens_to_ids(t) :
        t \in {bos_token, eos_token, unk_token, pad_token}
               \cup {_additional_special_tokens[i] : i \in 1..Len(_additional_special_tokens)}}

\* PreTrainedTokenizer.convert_ids_to_tokens for a list of ids.
convert_ids_to_tokens(ids, skip_special_tokens) ==
    LET kept == SelectSeq(ids, LAMBDA index : ~(skip_special_tokens /\ index \in all_special_ids))
    IN  [i \in 1..Len(kept) |->
            IF kept[i] \in DOMAIN added_tokens_decoder THEN added_tokens_decoder[kept[i]]
            ELSE _convert_id_to_token(kept[i])]

-----------------------------------------------------------------------------
(* Strings.                                                                *)

UpperCase == <<"A", "B", "C", "D", "E", "F", "G", "H", "I", "J", "K", "L", "M",
               "N", "O", "P", "Q", "R", "S", "T", "U", "V", "W", "X", "Y", "Z">>

LowerCase == <<"a", "b", "c", "d", "e", "f", "g", "h", "i", "j", "k", "l", "m",
               "n", "o", "p", "q", "r", "s", "t", "u", "v", "w", "x", "y", "z">>

\* str.lower on one character.
lower_char(c) ==
    IF \E i \in 1..Len(UpperCase) : UpperCase[i] = c
    THEN LowerCase[CHOOSE i \in 1..Len(UpperCase) : UpperCase[i] = c]
    ELSE c

\* str.lower
lower(s) == [i \in 1..Len(s) |-> lower_char(s[i])]

\* The characters str.strip() removes.
Whitespace == {" ", "\t", "\n", "\r"}

\* str.strip
strip(s) ==
    LET solid == {i \in 1..Len(s) : s[i] \notin Whitespace}
    IN  IF solid = {} THEN <<>>
        ELSE SubSeq(s, CHOOSE i \in solid : \A j \in solid : i <= j,
                       CHOOSE i \in solid : \A j \in solid : j <= i)

\* str.join
RECURSIVE join(_, _)
join(sep, strs) ==
    IF strs = <<>> THEN <<>>
    ELSE IF Len(strs) = 1 THEN strs[1]
    ELSE strs[1] \o sep \o join(sep, Tail(strs))

\* str.startswith at position i (1-based)
MatchesAt(s, i, old) ==
    /\ i + Len(old) - 1 <= Len(s)
    /\ SubSeq(s, i, i + Len(old) - 1) = old

\* str.replace for a non-empty `old`: leftmost, non-overlapping occurrences.
RECURSIVE replace_from(_, _, _, _)
replace_from(s, i, old, new) ==
    IF i > Len(s) THEN <<>>
    ELSE IF MatchesAt(s, i, old) THEN new \o replace_from(s, i + Len(old), old, new)
    ELSE <<s[i]>> \o replace_from(s, i + 1, old, new)

replace(s, old, new) == replace_from(s, 1, old, new)

\* The (old, new) pairs of PreTrainedTokenizerBase.clean_up_tokenization, in order.
CleanUpPairs ==
    << << <<" ", ".">>, <<".">> >>,
       << <<" ", "?">>, <<"?">> >>,
       << <<" ", "!">>, <<"!">> >>,
       << <<" ", ",">>, <<",">> >>,
       << <<" ", "'", " ">>, <<"'">> >>,
       << <<" ", "n", "'", "t">>, <<"n", "'", "t">> >>,
       << <<" ", "'", "m">>, <<"'", "m">> >>,
       << <<" ", "'", "s">>, <<"'", "s">> >>,
       << <<" ", "'", "v", "e">>, <<"'", "v", "e">> >>,
       << <<" ", "'", "r", "e">>, <<"'", "r", "e">> >> >>

RECURSIVE clean_up_from(_, _)
clean_up_from(s, k) ==
    IF k > Len(CleanUpPairs) THEN s
    ELSE clean_up_from(replace(s, CleanUpPairs[k][1], CleanUpPairs[k][2]), k + 1)

\* PreTrainedTokenizerBase.clean_up_tokenization
clean_up_tokenization(out_string) == clean_up_from(out_string, 1)

-----------------------------------------------------------------------------
(* convert_tokens_to_string and its helpers.                               *)

\* Mutant of filter_pad: the blank is kept.
filter_pad_none(cs) == cs

\* Line 233: filter self.pad_token, the CTC blank.
filter_pad(cs) == SelectSeq(cs, LAMBDA char : char # pad_token)

\* itertools.groupby with len(list(group_iter)): the runs of equal neighbours, in order.
RECURSIVE groupby_from(_, _, _)
groupby_from(seq, i, runs) ==
    IF i > Len(seq) THEN runs
    ELSE IF runs # <<>> /\ runs[Len(runs)].key = seq[i]
    THEN groupby_from(seq, i + 1, [runs EXCEPT ![Len(runs)].n = @ + 1])
    ELSE groupby_from(seq, i + 1, Append(runs, [key |-> seq[i], n |-> 1]))

\* Mutant of groupby: equal neighbours are not merged.
groupby_no_merge(seq) == [i \in 1..Len(seq) |-> [key |-> seq[i], n |-> 1]]

\* Mutant of groupby: the runs are merged but every length is reported as 1.
groupby_unit_counts(seq) ==
    LET runs == groupby_from(seq, 1, <<>>)
    IN  [i \in 1..Len(runs) |-> [runs[i] EXCEPT !.n = 1]]

groupby(seq) == groupby_from(seq, 1, <<>>)

\* Mutant of group_chars: the pad token is removed before the tokens are grouped.
group_chars_after_filter(toks, group_tokens) ==
    LET runs == groupby_from(filter_pad(toks), 1, <<>>)
    IN  IF group_tokens
        THEN [chars |-> [i \in 1..Len(runs) |-> runs[i].key],
              char_repetitions |-> [i \in 1..Len(runs) |-> runs[i].n]]
        ELSE [chars |-> filter_pad(toks),
              char_repetitions |-> [i \in 1..Len(filter_pad(toks)) |-> 1]]

\* Mutant of group_chars: the tokens are grouped whatever group_tokens says.
group_chars_always(toks, group_tokens) ==
    LET runs == groupby_from(toks, 1, <<>>)
    IN  [chars |-> [i \in 1..Len(runs) |-> runs[i].key],
         char_repetitions |-> [i \in 1..Len(runs) |-> runs[i].n]]

\* Lines 226-230: (chars, char_repetitions).
group_chars(toks, group_tokens) ==
    IF group_tokens
    THEN LET runs == groupby(toks)
         IN  [chars |-> [i \in 1..Len(runs) |-> runs[i].key],
              char_repetitions |-> [i \in 1..Len(runs) |-> runs[i].n]]
    ELSE [chars |-> toks, char_repetitions |-> [i \in 1..Len(toks) |-> 1]]

\* Mutant of replace_delimiter: the delimiter token is left in place.
replace_delimiter_none(cs, replacement) == cs

\* Lines 236-238: replace the delimiter token.
replace_delimiter(cs, replacement) ==
    [i \in 1..Len(cs) |-> IF Some(cs[i]) = word_delimiter_token THEN replacement ELSE cs[i]]

\* np.cumsum
RECURSIVE cumsum_from(_, _, _)
cumsum_from(xs, i, acc) ==
    IF i > Len(xs) THEN acc
    ELSE cumsum_from(xs, i + 1, Append(acc, (IF acc = <<>> THEN 0 ELSE acc[Len(acc)]) + xs[i]))

\* Mutant of cumsum: nothing is carried from one element to the next.
cumsum_no_carry(xs) == xs

cumsum(xs) == cumsum_from(xs, 1, <<>>)

\* Mutant of start_indices_of: the leading 0 is missing, every run starts where it ends.
start_indices_no_zero(end_indices) == end_indices

\* Line 280: np.concatenate(([0], end_indices[:-1]))
start_indices_of(end_indices) ==
    IF end_indices = <<>> THEN <<0>>
    ELSE <<0>> \o SubSeq(end_indices, 1, Len(end_indices) - 1)

\* Mutant of raw_offsets: start and end are exchanged.
raw_offsets_exchanged(reps, cs) ==
    LET end_indices == cumsum(reps)
        start_indices == start_indices_of(end_indices)
        n == IF Len(cs) < Len(end_indices) THEN Len(cs) ELSE Len(end_indices)
    IN  [i \in 1..n |-> [char |-> cs[i],
                         start_offset |-> end_indices[i],
                         end_offset |-> start_indices[i]]]

\* Lines 279-284: the offsets of every run, before the CTC token is filtered out.
\* zip stops at the shortest of its arguments.
raw_offsets(reps, cs) ==
    LET end_indices == cumsum(reps)
        start_indices == start_indices_of(end_indices)
        n == IF Len(cs) < Len(end_indices) THEN Len(cs) ELSE Len(end_indices)
    IN  [i \in 1..n |-> [char |-> cs[i],
                         start_offset |-> start_indices[i],
                         end_offset |-> end_indices[i]]]

\* Mutant of filter_ctc: the CTC token is kept.
filter_ctc_none(offs, ctc_token) == offs

\* Line 287: filter out the CTC token.
filter_ctc(offs, ctc_token) == SelectSeq(offs, LAMBDA o : o.char # ctc_token)

\* Mutant of _compute_offsets: the CTC token is filtered out before the offsets are
\* computed, which numbers the retained runs contiguously.
compute_offsets_renumbered(reps, cs, ctc_token) ==
    LET solid == {i \in 1..Len(cs) : cs[i] # ctc_token}
        nth(k) == CHOOSE i \in solid : Cardinality({j \in solid : j <= i}) = k
    IN  raw_offsets([k \in 1..Cardinality(solid) |-> reps[nth(k)]],
                    [k \in 1..Cardinality(solid) |-> cs[nth(k)]])

_compute_offsets(reps, cs, ctc_token) == filter_ctc(raw_offsets(reps, cs), ctc_token)

\* Mutant of set_chars: the symbols are not overwritten.
set_chars_skipped(offs, processed) == offs

\* Lines 254-255: char_offsets[i]["char"] = char
set_chars(offs, processed) ==
    [i \in 1..Len(offs) |-> [offs[i] EXCEPT !.char = processed[i]]]

\* Mutant of word_step: a character that continues the current state does not move
\* end_offset.
word_step_end_kept(st, offset, word_delimiter_char) ==
    LET char == offset.char
        state == IF char = word_delimiter_char THEN "SPACE" ELSE "WORD"
    IN  IF state = st.last_state
        THEN [st EXCEPT !.word = @ \o char]
        ELSE IF state = "SPACE"
        THEN [st EXCEPT !.word_offsets = Append(@, [word |-> st.word,
                                                    start_offset |-> st.start_offset,
                                                    end_offset |-> st.end_offset]),
                        !.last_state = state]
        ELSE [st EXCEPT !.start_offset = offset.start_offset,
                        !.end_offset = offset.end_offset,
                        !.word = char,
                        !.last_state = state]

\* Mutant of word_step: entering a word appends to the characters collected so far
\* instead of starting the word afresh.
word_step_word_kept(st, offset, word_delimiter_char) ==
    LET char == offset.char
        state == IF char = word_delimiter_char THEN "SPACE" ELSE "WORD"
    IN  IF state = st.last_state
        THEN [st EXCEPT !.end_offset = offset.end_offset, !.word = @ \o char]
        ELSE IF state = "SPACE"
        THEN [st EXCEPT !.word_offsets = Append(@, [word |-> st.word,
                                                    start_offset |-> st.start_offset,
                                                    end_offset |-> st.end_offset]),
                        !.last_state = state]
        ELSE [st EXCEPT !.start_offset = offset.start_offset,
                        !.end_offset = offset.end_offset,
                        !.word = @ \o char,
                        !.last_state = state]

\* Mutant of word_step: the delimiter that closes a word gives the word its end_offset.
word_step_end_at_delimiter(st, offset, word_delimiter_char) ==
    LET char == offset.char
        state == IF char = word_delimiter_char THEN "SPACE" ELSE "WORD"
    IN  IF state = st.last_state
        THEN [st EXCEPT !.end_offset = offset.end_offset, !.word = @ \o char]
        ELSE IF state = "SPACE"
        THEN [st EXCEPT !.word_offsets = Append(@, [word |-> st.word,
                                                    start_offset |-> st.start_offset,
                                                    end_offset |-> offset.end_offset]),
                        !.last_state = state]
        ELSE [st EXCEPT !.start_offset = offset.start_offset,
                        !.end_offset = offset.end_offset,
                        !.word = char,
                        !.last_state = state]

\* Mutant of word_step: a word starts where the word before it ended.
word_step_start_at_last_end(st, offset, word_delimiter_char) ==
    LET char == offset.char
        state == IF char = word_delimiter_char THEN "SPACE" ELSE "WORD"
    IN  IF state = st.last_state
        THEN [st EXCEPT !.end_offset = offset.end_offset, !.word = @ \o char]
        ELSE IF state = "SPACE"
        THEN [st EXCEPT !.word_offsets = Append(@, [word |-> st.word,
                                                    start_offset |-> st.start_offset,
                                                    end_offset |-> st.end_offset]),
                        !.last_state = state]
        ELSE [st EXCEPT !.start_offset =
                            IF st.word_offsets = <<>> THEN offset.start_offset
                            ELSE st.word_offsets[Len(st.word_offsets)].end_offset,
                        !.end_offset = offset.end_offset,
                        !.word = char,
                        !.last_state = state]

\* Lines 300-319: one iteration of the word scan; st is the loop's locals.
word_step(st, offset, word_delimiter_char) ==
    LET char == offset.char
        state == IF char = word_delimiter_char THEN "SPACE" ELSE "WORD"
    IN  IF state = st.last_state
        THEN [st EXCEPT !.end_offset = offset.end_offset, !.word = @ \o char]
        ELSE IF state = "SPACE"
        THEN [st EXCEPT !.word_offsets = Append(@, [word |-> st.word,
                                                    start_offset |-> st.start_offset,
                                                    end_offset |-> st.end_offset]),
                        !.last_state = state]
        ELSE [st EXCEPT !.start_offset = offset.start_offset,
                        !.end_offset = offset.end_offset,
                        !.word = char,
                        !.last_state = state]

RECURSIVE word_scan(_, _, _, _)
word_scan(st, offs, i, word_delimiter_char) ==
    IF i > Len(offs) THEN st
    ELSE word_scan(word_step(st, offs[i], word_delimiter_char), offs, i + 1, word_delimiter_char)

\* Mutant of _get_word_offsets: the word still open when the loop ends is dropped.
get_word_offsets_no_flush(offs, word_delimiter_char) ==
    LET st0 == [word_offsets |-> <<>>, last_state |-> "SPACE", word |-> <<>>,
                start_offset |-> 0, end_offset |-> 0]
    IN  word_scan(st0, offs, 1, word_delimiter_char).word_offsets

\* Mutant of _get_word_offsets: the scan starts in state WORD.
get_word_offsets_start_in_word(offs, word_delimiter_char) ==
    LET st0 == [word_offsets |-> <<>>, last_state |-> "WORD", word |-> <<>>,
                start_offset |-> 0, end_offset |-> 0]
        st == word_scan(st0, offs, 1, word_delimiter_char)
    IN  IF st.last_state = "WORD"
        THEN Append(st.word_offsets, [word |-> st.word,
                                      start_offset |-> st.start_offset,
                                      end_offset |-> st.end_offset])
        ELSE st.word_offsets

\* Lines 290-323.
_get_word_offsets(offs, word_delimiter_char) ==
    LET st0 == [word_offsets |-> <<>>, last_state |-> "SPACE", word |-> <<>>,
                start_offset |-> 0, end_offset |-> 0]
        st == word_scan(st0, offs, 1, word_delimiter_char)
    IN  IF st.last_state = "WORD"
        THEN Append(st.word_offsets, [word |-> st.word,
                                      start_offset |-> st.start_offset,
                                      end_offset |-> st.end_offset])
        ELSE st.word_offsets

\* Mutant of assemble_text: the joined string is not stripped.
assemble_text_no_strip(processed, spaces_between_special_tokens, lower_case) ==
    LET join_char == IF spaces_between_special_tokens THEN <<" ">> ELSE <<>>
        string == join(join_char, processed)
    IN  IF lower_case THEN lower(string) ELSE string

\* Lines 267-271: join to string, strip, lower-case.
assemble_text(processed, spaces_between_special_tokens, lower_case) ==
    LET join_char == IF spaces_between_special_tokens THEN <<" ">> ELSE <<>>
        string == strip(join(join_char, processed))
    IN  IF lower_case THEN lower(string) ELSE string

\* Mutant of offsets_wanted: only output_char_offsets makes the offsets be computed.
offsets_wanted_char_only(output_char_offsets, output_word_offsets) == output_char_offsets

\* Line 242: if output_char_offsets or output_word_offsets
offsets_wanted(output_char_offsets, output_word_offsets) ==
    output_char_offsets \/ output_word_offsets

\* Mutant of reported_char_offsets: the char offsets computed for the word offsets are
\* returned as well.
reported_char_offsets_kept(offs, output_char_offsets) == offs

\* Lines 262-264: char_offsets is set to None if it was not asked for.
reported_char_offsets(offs, output_char_offsets) ==
    IF output_char_offsets THEN offs ELSE None

\* Mutant of empty_tokens_output: the offsets of an empty token list are None.
empty_tokens_output_none == [text |-> <<>>, char_offsets |-> None, word_offsets |-> None]

\* Line 224: what convert_tokens_to_string returns for an empty token list.
empty_tokens_output == [text |-> <<>>, char_offsets |-> Some(<<>>), word_offsets |-> Some(<<>>)]

\* Lines 212-273.  The result carries the locals as well as what is returned (ret);
\* raised is TRUE when line 246 raises ValueError.
convert_tokens_to_string(toks, group_tokens, spaces_between_special_tokens, output_char_offsets, output_word_offsets, lower_case, replacement) ==
    IF Len(toks) = 0
    THEN [raised |-> FALSE, chars |-> <<>>, char_repetitions |-> <<>>, processed_chars |-> <<>>,
          offsets |-> None, char_offsets |-> None,
          ret |-> empty_tokens_output]
    ELSE
    LET grouped == group_chars(toks, group_tokens)
        cs == grouped.chars
        reps == grouped.char_repetitions
        processed == replace_delimiter(filter_pad(cs), replacement)
        wanted == offsets_wanted(output_char_offsets, output_word_offsets)
        computed == _compute_offsets(reps, cs, pad_token)
        mismatch == wanted /\ Len(computed) # Len(processed)
        offs == IF wanted /\ ~mismatch THEN Some(set_chars(computed, processed)) ELSE None
        word_offs == IF wanted /\ ~mismatch /\ output_word_offsets
                     THEN Some(_get_word_offsets(offs[1], replacement))
                     ELSE None
        string == assemble_text(processed, spaces_between_special_tokens, lower_case)
    IN  [raised |-> mismatch, chars |-> cs, char_repetitions |-> reps,
         processed_chars |-> processed,
         offsets |-> IF wanted THEN Some(raw_offsets(reps, cs)) ELSE None,
         char_offsets |-> IF mismatch THEN Some(computed) ELSE offs,
         ret |-> IF mismatch THEN None
                 ELSE [text |-> string,
                       char_offsets |-> reported_char_offsets(offs, output_char_offsets),
                       word_offsets |-> word_offs]]

-----------------------------------------------------------------------------
(* decode.                                                                 *)

\* Line 349: `token in self.all_special_ids`.  token is a str and all_special_ids
\* holds ints, so the membership test is never true.
token_in_all_special_ids(token) == FALSE

\* Lines 345-351: the tokens handed to convert_tokens_to_string.
decode_tokens(ids, skip_special_tokens) ==
    SelectSeq(convert_ids_to_tokens(ids, skip_special_tokens),
              LAMBDA token : ~(skip_special_tokens /\ token_in_all_special_ids(token)))

\* Mutant of decode_output: only output_word_offsets selects the structured result.
decode_output_word_only(so, kw) ==
    LET text == IF kw.clean_up_tokenization_spaces THEN clean_up_tokenization(so.text)
                ELSE so.text
    IN  IF kw.output_word_offsets
        THEN [kind |-> "SpeechT5CTCTokenizerOutput", text |-> text,
              char_offsets |-> so.char_offsets, word_offsets |-> so.word_offsets]
        ELSE [kind |-> "str", text |-> text]

\* Lines 361-373: what _decode returns from convert_tokens_to_string's dict.
decode_output(so, kw) ==
    LET text == IF kw.clean_up_tokenization_spaces THEN clean_up_tokenization(so.text)
                ELSE so.text
    IN  IF kw.output_word_offsets \/ kw.output_char_offsets
        THEN [kind |-> "SpeechT5CTCTokenizerOutput", text |-> text,
              char_offsets |-> so.char_offsets, word_offsets |-> so.word_offsets]
        ELSE [kind |-> "str", text |-> text]

\* decode's keyword arguments.  clean_up_tokenization_spaces keeps its default: the
\* vocabulary holds no punctuation, so clean_up_tokenization changes no decoded text.
Flags ==
    [skip_special_tokens : BOOLEAN, clean_up_tokenization_spaces : {TRUE},
     group_tokens : BOOLEAN, spaces_between_special_tokens : BOOLEAN,
     output_word_offsets : BOOLEAN, output_char_offsets : BOOLEAN]

\* The values of replace_word_delimiter_char a tokenizer is built with: the default
\* " " and a literal that is not whitespace.
ReplaceChars == {<<" ">>, <<"_">>}

IdSeqs == UNION {[1..n -> Ids] : n \in 0..MaxLen}

\* __init__ with verbose drawn from verbose_values: the configuration; no call has been
\* made.
__init__(verbose_values) ==
    /\ encoder = vocab_file
    /\ decoder = [i \in {vocab_file[t] : t \in DOMAIN vocab_file} |->
                      CHOOSE t \in DOMAIN vocab_file : vocab_file[t] = i]
    /\ added_tokens_encoder = <<>>
    /\ added_tokens_decoder = <<>>
    /\ _additional_special_tokens = <<>>
    /\ _word_delimiter_token = StrValue(<<"|">>)
    /\ verbose \in verbose_values
    /\ do_lower_case \in BOOLEAN
    /\ replace_word_delimiter_char \in ReplaceChars
    /\ sequences = <<>>
    /\ last = None
    /\ token_ids = <<>>
    /\ kwargs = None
    /\ tokens = <<>>
    /\ frame = None
    /\ output = None
    /\ pc = "idle"

\* A tokenizer built with verbose at its default, True.
Init == __init__({TRUE})

\* Mutant of decode: an id without a vocabulary entry is entered in added_tokens_decoder.
decode_adds_unknown_ids(ids, kw) ==
    /\ token_ids' = ids
    /\ kwargs' = Some(kw)
    /\ tokens' = decode_tokens(ids, kw.skip_special_tokens)
    /\ frame' = Some(convert_tokens_to_string(tokens', kw.group_tokens,
                         kw.spaces_between_special_tokens, kw.output_char_offsets,
                         kw.output_word_offsets, do_lower_case, replace_word_delimiter_char))
    /\ output' = IF frame'[1].raised THEN None ELSE Some(decode_output(frame'[1].ret, kw))
    /\ pc' = IF frame'[1].raised THEN "raised" ELSE "returned"
    /\ added_tokens_decoder' =
           [i \in DOMAIN added_tokens_decoder
                   \cup {ids[k] : k \in {m \in 1..Len(ids) : ids[m] \notin DOMAIN decoder}} |->
               IF i \in DOMAIN added_tokens_decoder THEN added_tokens_decoder[i] ELSE unk_token]
    /\ UNCHANGED <<encoder, decoder, added_tokens_encoder, _additional_special_tokens,
                   _word_delimiter_token, verbose, do_lower_case,
                   replace_word_delimiter_char>>

\* Mutant of decode: the call leaves do_lower_case set.
decode_sets_lower_case(ids, kw) ==
    /\ token_ids' = ids
    /\ kwargs' = Some(kw)
    /\ tokens' = decode_tokens(ids, kw.skip_special_tokens)
    /\ frame' = Some(convert_tokens_to_string(tokens', kw.group_tokens,
                         kw.spaces_between_special_tokens, kw.output_char_offsets,
                         kw.output_word_offsets, do_lower_case, replace_word_delimiter_char))
    /\ output' = IF frame'[1].raised THEN None ELSE Some(decode_output(frame'[1].ret, kw))
    /\ pc' = IF frame'[1].raised THEN "raised" ELSE "returned"
    /\ do_lower_case' = TRUE
    /\ UNCHANGED <<encoder, decoder, added_tokens_encoder, added_tokens_decoder,
                   _additional_special_tokens, _word_delimiter_token, verbose,
                   replace_word_delimiter_char>>

\* decode(token_ids, **kwargs), lines 448-553 and 330-373: one call, start to end.
decode(ids, kw) ==
    /\ token_ids' = ids
    /\ kwargs' = Some(kw)
    /\ tokens' = decode_tokens(ids, kw.skip_special_tokens)
    /\ frame' = Some(convert_tokens_to_string(tokens', kw.group_tokens,
                         kw.spaces_between_special_tokens, kw.output_char_offsets,
                         kw.output_word_offsets, do_lower_case, replace_word_delimiter_char))
    /\ output' = IF frame'[1].raised THEN None ELSE Some(decode_output(frame'[1].ret, kw))
    /\ pc' = IF frame'[1].raised THEN "raised" ELSE "returned"
    /\ UNCHANGED tokenizer

\* A caller decodes some id sequence with some keyword arguments.
Decode ==
    /\ pc = "idle"
    /\ \E ids \in IdSeqs : \E kw \in Flags : decode(ids, kw)
    /\ UNCHANGED <<sequences, last>>

\* The values a caller assigns to word_delimiter_token: the default, a letter of the
\* vocabulary and None.
DelimiterValues == {StrValue(<<"|">>), StrValue(<<"A">>), NoneValue}

\* The values a caller assigns to word_delimiter_token_id: a token and None.
DelimiterIdValues == {StrValue(<<"|">>), NoneValue}

\* PreTrainedTokenizer.convert_tokens_to_ids for a str or None.
convert_tokens_to_ids_or_none(value) ==
    IF value.type = "NoneType" THEN NoneValue ELSE IntValue(convert_tokens_to_ids(value.str))

\* Lines 179-181, the word_delimiter_token setter.
set_word_delimiter_token(value) ==
    /\ _word_delimiter_token' = value
    /\ UNCHANGED <<encoder, decoder, added_tokens_encoder, added_tokens_decoder,
                   _additional_special_tokens, verbose, do_lower_case,
                   replace_word_delimiter_char>>

\* Lines 183-185, the word_delimiter_token_id setter: the id is stored where the token was.
set_word_delimiter_token_id(value) ==
    /\ _word_delimiter_token' = convert_tokens_to_ids_or_none(value)
    /\ UNCHANGED <<encoder, decoder, added_tokens_encoder, added_tokens_decoder,
                   _additional_special_tokens, verbose, do_lower_case,
                   replace_word_delimiter_char>>

\* A caller assigns tokenizer.word_delimiter_token between two calls.
SetWordDelimiterToken ==
    /\ pc = "idle"
    /\ \E value \in DelimiterValues : set_word_delimiter_token(value)
    /\ UNCHANGED <<sequences, token_ids, kwargs, tokens, frame, output, pc, last>>

\* A caller assigns tokenizer.word_delimiter_token_id between two calls.
SetWordDelimiterTokenId ==
    /\ pc = "idle"
    /\ \E value \in DelimiterIdValues : set_word_delimiter_token_id(value)
    /\ UNCHANGED <<sequences, token_ids, kwargs, tokens, frame, output, pc, last>>

\* The caller has the result (or the exception); the tokenizer is ready for the next call.
Return ==
    /\ pc \in {"returned", "raised", "converted", "batch_returned", "batch_raised", "added"}
    /\ pc' = "idle"
    /\ sequences' = <<>>
    /\ token_ids' = <<>>
    /\ kwargs' = None
    /\ tokens' = <<>>
    /\ frame' = None
    /\ output' = None
    /\ UNCHANGED <<tokenizer, last>>

Next == Decode \/ SetWordDelimiterToken \/ SetWordDelimiterTokenId \/ Return

Spec == Init /\ [][Next]_vars

-----------------------------------------------------------------------------
(* batch_decode.                                                           *)

\* Lines 330-373, _decode as a function of its arguments: whether it raised and, if not,
\* what it returned.
_decode(ids, kw) ==
    LET so == convert_tokens_to_string(decode_tokens(ids, kw.skip_special_tokens),
                  kw.group_tokens, kw.spaces_between_special_tokens, kw.output_char_offsets,
                  kw.output_word_offsets, do_lower_case, replace_word_delimiter_char)
    IN  [raised |-> so.raised,
         output |-> IF so.raised THEN None ELSE Some(decode_output(so.ret, kw))]

\* ModelOutput.keys(): a SpeechT5CTCTokenizerOutput is a dict of its fields that are not
\* None.
ModelOutput_keys(d) ==
    {"text"} \cup {k \in {"char_offsets", "word_offsets"} : d[k] # None}

\* Line 442, {k: [d[k] for d in batch_decoded] for k in batch_decoded[0]} handed to
\* SpeechT5CTCTokenizerOutput: the fields keyed in the first result become lists, the
\* other fields stay None.
transpose(outs) ==
    LET keys == ModelOutput_keys(outs[1])
    IN  [kind |-> "SpeechT5CTCTokenizerOutput",
         text |-> [i \in 1..Len(outs) |-> outs[i].text],
         char_offsets |-> IF "char_offsets" \in keys
                          THEN Some([i \in 1..Len(outs) |-> outs[i].char_offsets[1]])
                          ELSE None,
         word_offsets |-> IF "word_offsets" \in keys
                          THEN Some([i \in 1..Len(outs) |-> outs[i].word_offsets[1]])
                          ELSE None]

\* Lines 429-444.  With an offsets flag the list of results becomes one
\* SpeechT5CTCTokenizerOutput; batch_decoded[0] of an empty batch raises IndexError and
\* d[k] of a result that lacks a key of the first result raises KeyError.
batch_decode(seqs, kw) ==
    LET batch_decoded == [i \in 1..Len(seqs) |-> _decode(seqs[i], kw)]
        n == Len(batch_decoded)
        outs == [i \in 1..n |-> batch_decoded[i].output[1]]
    IN  IF \E i \in 1..n : batch_decoded[i].raised
        THEN [raised |-> TRUE, output |-> None]
        ELSE IF kw.output_char_offsets \/ kw.output_word_offsets
        THEN IF n = 0 THEN [raised |-> TRUE, output |-> None]
             ELSE IF \E i \in 1..n : ~(ModelOutput_keys(outs[1]) \subseteq ModelOutput_keys(outs[i]))
             THEN [raised |-> TRUE, output |-> None]
             ELSE [raised |-> FALSE, output |-> Some(transpose(outs))]
        ELSE [raised |-> FALSE,
              output |-> Some([kind |-> "list", text |-> [i \in 1..n |-> outs[i].text]])]

\* The id sequences of a batch: the empty one, every single id, and one with a repeat,
\* a blank and a delimiter.
BatchItems == {<<>>} \cup {<<i>> : i \in Ids} \cup {<<3, 3, 0, 3, 2, 4>>}

Batches == UNION {[1..n -> BatchItems] : n \in 0..MaxBatch}

\* A caller decodes a batch: batch_decode(sequences, **kwargs), one call, start to end.
BatchDecode ==
    /\ pc = "idle"
    /\ \E seqs \in Batches : \E kw \in Flags :
           /\ sequences' = seqs
           /\ kwargs' = Some(kw)
           /\ output' = batch_decode(seqs, kw).output
           /\ pc' = IF batch_decode(seqs, kw).raised THEN "batch_raised" ELSE "batch_returned"
    /\ UNCHANGED <<tokenizer, token_ids, tokens, frame, last>>

BatchNext ==
    Decode \/ BatchDecode \/ SetWordDelimiterToken \/ SetWordDelimiterTokenId \/ Return

BatchSpec == Init /\ [][BatchNext]_vars

-----------------------------------------------------------------------------
(* _add_tokens.                                                            *)

\* A vocabulary file whose ids are distinct but leave id 4 out.
vocab_file_gap ==
    [t \in DOMAIN vocab_file |-> IF vocab_file[t] = Len(vocab_tokens) - 1 THEN Len(vocab_tokens)
                                 ELSE vocab_file[t]]

VocabFiles == {vocab_file, vocab_file_gap}

\* Line 149: {v: k for k, v in self.encoder.items()}
inverse(enc) ==
    [i \in {enc[t] : t \in DOMAIN enc} |-> CHOOSE t \in DOMAIN enc : enc[t] = i]

\* __init__ with either vocabulary file; no call has been made.
AddInit ==
    /\ encoder \in VocabFiles
    /\ decoder = inverse(encoder)
    /\ added_tokens_encoder = <<>>
    /\ added_tokens_decoder = <<>>
    /\ _additional_special_tokens = <<>>
    /\ _word_delimiter_token = StrValue(<<"|">>)
    /\ verbose = TRUE
    /\ do_lower_case \in BOOLEAN
    /\ replace_word_delimiter_char = <<" ">>
    /\ sequences = <<>>
    /\ last = None
    /\ token_ids = <<>>
    /\ kwargs = None
    /\ tokens = <<>>
    /\ frame = None
    /\ output = None
    /\ pc = "idle"

\* Lines 597-608: the tokens that will be added, in order.
RECURSIVE tokens_to_add_from(_, _, _, _)
tokens_to_add_from(new_tokens, special_tokens, i, acc) ==
    IF i > Len(new_tokens) THEN acc
    ELSE LET token == IF ~special_tokens /\ do_lower_case THEN lower(new_tokens[i])
                      ELSE new_tokens[i]
             add == /\ token # unk_token
                    /\ convert_tokens_to_ids(token) = convert_tokens_to_ids(unk_token)
                    /\ ~\E j \in 1..Len(acc) : acc[j] = token
         IN  tokens_to_add_from(new_tokens, special_tokens, i + 1,
                                IF add THEN Append(acc, token) ELSE acc)

tokens_to_add(new_tokens, special_tokens) == tokens_to_add_from(new_tokens, special_tokens, 1, <<>>)

\* Mutant of added_tok_encoder: the ids start one above the tokenizer's length.
added_tok_encoder_from_one(to_add) ==
    [tok \in {to_add[i] : i \in 1..Len(to_add)} |->
        __len__ + (CHOOSE i \in 1..Len(to_add) : to_add[i] = tok)]

\* Line 611: dict((tok, len(self) + i) for i, tok in enumerate(tokens_to_add))
added_tok_encoder(to_add) ==
    [tok \in {to_add[i] : i \in 1..Len(to_add)} |->
        __len__ + (CHOOSE i \in 1..Len(to_add) : to_add[i] = tok) - 1]

\* dict.update
update(d, other) ==
    [k \in DOMAIN d \cup DOMAIN other |-> IF k \in DOMAIN other THEN other[k] ELSE d[k]]

\* _add_tokens(new_tokens, special_tokens), lines 568-624: one call, start to end.
_add_tokens(new_tokens, special_tokens) ==
    LET to_add == tokens_to_add(new_tokens, special_tokens)
        enc == added_tok_encoder(to_add)
    IN  /\ tokens' = new_tokens
        /\ kwargs' = Some([special_tokens |-> special_tokens])
        /\ added_tokens_encoder' = update(added_tokens_encoder, enc)
        /\ added_tokens_decoder' = update(added_tokens_decoder, inverse(enc))
        /\ _additional_special_tokens' =
               _additional_special_tokens \o SelectSeq(to_add, LAMBDA token : Len(token) > 1)
        /\ output' = Some(Len(to_add))
        /\ pc' = "added"
        /\ UNCHANGED <<encoder, decoder, _word_delimiter_token, verbose, do_lower_case,
                       replace_word_delimiter_char>>

\* The tokens a caller asks to add: new ones, one of the vocabulary, the unknown token
\* and one of several characters.
NewTokens == {<<"C">>, <<"A">>, unk_token, <<"D", "E">>}

NewTokenLists == UNION {[1..n -> NewTokens] : n \in 0..MaxNew}

\* A caller adds tokens.
AddTokens ==
    /\ pc = "idle"
    /\ \E new_tokens \in NewTokenLists : \E special_tokens \in BOOLEAN :
           _add_tokens(new_tokens, special_tokens)
    /\ UNCHANGED <<sequences, token_ids, frame, last>>

AddNext == AddTokens \/ SetWordDelimiterToken \/ SetWordDelimiterTokenId \/ Return

AddSpec == AddInit /\ [][AddNext]_vars

-----------------------------------------------------------------------------
(* The same decode call made twice in a row.                               *)

RepeatIdSeqs == UNION {[1..n -> Ids] : n \in 0..MaxRepeatLen}

\* A caller decodes some id sequence for the first time.
DecodeFirst ==
    /\ pc = "idle"
    /\ last = None
    /\ \E ids \in RepeatIdSeqs : \E kw \in Flags : decode(ids, kw)
    /\ UNCHANGED <<sequences, last>>

\* The caller keeps the arguments and the outcome of the call that has ended.
Remember ==
    /\ pc \in {"returned", "raised"}
    /\ last = None
    /\ last' = Some([token_ids |-> token_ids, kwargs |-> kwargs[1], pc |-> pc, output |-> output,
                     tokens |-> tokens, _word_delimiter_token |-> _word_delimiter_token])
    /\ pc' = "idle"
    /\ token_ids' = <<>>
    /\ kwargs' = None
    /\ tokens' = <<>>
    /\ frame' = None
    /\ output' = None
    /\ UNCHANGED <<tokenizer, sequences>>

\* The caller makes the call it remembers once more.
DecodeAgain ==
    /\ pc = "idle"
    /\ last # None
    /\ decode(last[1].token_ids, last[1].kwargs)
    /\ UNCHANGED <<sequences, last>>

\* The second call has ended; the caller drops what it remembered.
Forget ==
    /\ pc \in {"returned", "raised"}
    /\ last # None
    /\ last' = None
    /\ pc' = "idle"
    /\ token_ids' = <<>>
    /\ kwargs' = None
    /\ tokens' = <<>>
    /\ frame' = None
    /\ output' = None
    /\ UNCHANGED <<tokenizer, sequences>>

RepeatNext ==
    \/ DecodeFirst \/ Remember \/ DecodeAgain \/ Forget
    \/ SetWordDelimiterToken \/ SetWordDelimiterTokenId

RepeatSpec == Init /\ [][RepeatNext]_vars

-----------------------------------------------------------------------------
(* convert_tokens_to_string called on its own, also with tokens of a larger *)
(* alphabet than the vocabulary's.                                          *)

\* The symbols H,H,E,L,L,O,|,|,W.
Example ==
    << <<"H">>, <<"H">>, <<"E">>, <<"L">>, <<"L">>, <<"O">>, <<"|">>, <<"|">>, <<"W">> >>

\* The token lists handed to convert_tokens_to_string: every slice of Example.
ExampleSlices ==
    {SubSeq(Example, i, j) : i \in 1..(Len(Example) + 1), j \in 0..Len(Example)}

\* The token lists handed to convert_tokens_to_string: the slices of Example and the
\* lists of vocabulary symbols, the blank among them.
ConvertInputs ==
    ExampleSlices
        \cup UNION {[1..n -> {pad_token, <<"|">>, <<"A">>, <<"B">>}] : n \in 0..MaxLen}

\* convert_tokens_to_string's keyword arguments.
ConvertFlags ==
    [group_tokens : BOOLEAN, spaces_between_special_tokens : BOOLEAN,
     output_word_offsets : BOOLEAN, output_char_offsets : BOOLEAN]

\* convert_tokens_to_string(tokens, **kwargs), lines 212-273: one call, start to end.
Convert ==
    /\ pc = "idle"
    /\ \E toks \in ConvertInputs : \E kw \in ConvertFlags :
           /\ tokens' = toks
           /\ kwargs' = Some(kw)
           /\ frame' = Some(convert_tokens_to_string(toks, kw.group_tokens,
                                kw.spaces_between_special_tokens, kw.output_char_offsets,
                                kw.output_word_offsets, do_lower_case,
                                replace_word_delimiter_char))
           /\ pc' = IF frame'[1].raised THEN "raised" ELSE "converted"
    /\ UNCHANGED <<tokenizer, sequences, token_ids, output, last>>

ConvertNext == Convert \/ SetWordDelimiterToken \/ SetWordDelimiterTokenId \/ Return

\* A tokenizer built with either value of verbose.
ConvertInit == __init__(BOOLEAN)

ConvertSpec == ConvertInit /\ [][ConvertNext]_vars

-----------------------------------------------------------------------------
(* Properties.  They read the state a finished decode call left behind.    *)

\* convert_tokens_to_string was called with a non-empty token list and returned.
Converted == pc = "returned" /\ tokens # <<>>

\* Line 242: offsets were asked for.
OffsetsWanted == kwargs[1].output_char_offsets \/ kwargs[1].output_word_offsets

\* C1: with group_tokens the runs (chars, char_repetitions) are the maximal run-length
\* encoding of the tokens: in order, every count >= 1, no two adjacent runs with the
\* same symbol, and expanding every run by its count gives back the tokens.
C1_MaximalRunLengthEncoding ==
    (Converted /\ kwargs[1].group_tokens) =>
        LET cs == frame[1].chars
            reps == frame[1].char_repetitions
            Upto[i \in 0..Len(reps)] == IF i = 0 THEN 0 ELSE Upto[i - 1] + reps[i]
        IN  /\ Len(cs) = Len(reps)
            /\ \A i \in 1..Len(reps) : reps[i] >= 1
            /\ \A i \in 1..(Len(cs) - 1) : cs[i] # cs[i + 1]
            /\ Upto[Len(reps)] = Len(tokens)
            /\ \A i \in 1..Len(cs) : \A q \in (Upto[i - 1] + 1)..Upto[i] : tokens[q] = cs[i]

\* C1 witness: a grouped call with several runs, one of them longer than one token.
C1_Witness ==
    /\ Converted /\ kwargs[1].group_tokens
    /\ Len(frame[1].chars) >= 2
    /\ \E i \in 1..Len(frame[1].char_repetitions) : frame[1].char_repetitions[i] >= 2

\* C2: for a non-empty token list and either value of group_tokens the repetition
\* counts sum to the number of tokens, and every count is 1 when group_tokens is false.
C2_CountsSumToLength ==
    Converted =>
        LET reps == frame[1].char_repetitions
            Sum[i \in 0..Len(reps)] == IF i = 0 THEN 0 ELSE Sum[i - 1] + reps[i]
        IN  /\ Sum[Len(reps)] = Len(tokens)
            /\ ~kwargs[1].group_tokens => \A i \in 1..Len(reps) : reps[i] = 1

\* C2 witness: an ungrouped call whose tokens hold two equal neighbours.
C2_Witness ==
    /\ Converted /\ ~kwargs[1].group_tokens
    /\ \E q \in 1..(Len(tokens) - 1) : tokens[q] = tokens[q + 1]

\* C3: before the blank filter the offsets are the inclusive cumulative sums of the
\* counts: the first run starts at 0, every run ends count frames after its start,
\* every run starts where the one before ends, and the last run ends at the input length.
C3_OffsetsTileInput ==
    (Converted /\ OffsetsWanted) =>
        LET raw == frame[1].offsets[1]
            reps == frame[1].char_repetitions
        IN  /\ Len(raw) = Len(reps)
            /\ raw[1].start_offset = 0
            /\ \A i \in 1..Len(raw) : raw[i].end_offset = raw[i].start_offset + reps[i]
            /\ \A i \in 1..(Len(raw) - 1) : raw[i].end_offset = raw[i + 1].start_offset
            /\ raw[Len(raw)].end_offset = Len(tokens)

\* C3 witness: offsets were computed for several runs, one longer than one token.
C3_Witness ==
    /\ Converted /\ OffsetsWanted
    /\ Len(frame[1].offsets[1]) >= 2
    /\ \E i \in 1..Len(frame[1].offsets[1]) :
           frame[1].offsets[1][i].end_offset - frame[1].offsets[1][i].start_offset >= 2

\* C4: the retained char offsets are, in order, exactly the pre-filter run intervals
\* whose symbol is not the pad token, with their start and end unchanged; together they
\* cover exactly the input positions that hold a non-pad symbol.
C4_BlankFilterKeepsIntervals ==
    (Converted /\ OffsetsWanted) =>
        LET raw == frame[1].offsets[1]
            kept == frame[1].char_offsets[1]
            solid == {j \in 1..Len(raw) : raw[j].char # pad_token}
        IN  /\ Len(kept) = Cardinality(solid)
            /\ {<<kept[k].start_offset, kept[k].end_offset>> : k \in 1..Len(kept)}
                   = {<<raw[j].start_offset, raw[j].end_offset>> : j \in solid}
            /\ \A k \in 1..(Len(kept) - 1) : kept[k].start_offset < kept[k + 1].start_offset
            /\ UNION {kept[k].start_offset..(kept[k].end_offset - 1) : k \in 1..Len(kept)}
                   = {q - 1 : q \in {r \in 1..Len(tokens) : tokens[r] # pad_token}}

\* C4 witness: a pad run was dropped in front of a retained character.
C4_Witness ==
    /\ Converted /\ OffsetsWanted
    /\ tokens[1] = pad_token
    /\ \E k \in 1..Len(frame[1].char_offsets[1]) : frame[1].char_offsets[1][k].start_offset > 0

\* C5: every char offset decode returns is a half-open interval of positions of the id
\* sequence passed to decode, and every id at those positions maps to the character's
\* symbol (the word-delimiter token where the character is the replacement literal),
\* whatever skip_special_tokens and group_tokens are.
C5_OffsetsIndexDecodeInput ==
    (pc = "returned" /\ kwargs[1].output_char_offsets) =>
        LET offs == output[1].char_offsets[1]
        IN  \A k \in 1..Len(offs) :
                /\ 0 <= offs[k].start_offset
                /\ offs[k].start_offset < offs[k].end_offset
                /\ offs[k].end_offset <= Len(token_ids)
                /\ \A q \in offs[k].start_offset..(offs[k].end_offset - 1) :
                       Some(_convert_id_to_token(token_ids[q + 1]))
                           = IF offs[k].char = replace_word_delimiter_char
                             THEN word_delimiter_token ELSE Some(offs[k].char)

\* The characters a symbol contributes to the text: the replacement literal for the
\* delimiter token, lower-cased when the tokenizer lower-cases.
ShownAs(sym) ==
    LET shown == IF Some(sym) = word_delimiter_token THEN replace_word_delimiter_char ELSE sym
    IN  IF do_lower_case THEN lower(shown) ELSE shown

\* The number of places of text where sub occurs.
Occurrences(text, sub) == Cardinality({q \in 1..Len(text) : MatchesAt(text, q, sub)})

\* Tokens i and j are the same non-pad symbol with only pad tokens, at least one, between.
BlankSeparated(i, j) ==
    /\ j > i + 1
    /\ tokens[i] = tokens[j]
    /\ tokens[i] # pad_token
    /\ \A m \in (i + 1)..(j - 1) : tokens[m] = pad_token

\* Offset o covers the token at (1-based) position q.
Covers(o, q) == o.start_offset <= q - 1 /\ q - 1 < o.end_offset

\* With group_tokens: the characters are the non-pad runs of the tokens, two equal
\* non-pad neighbours lie in one char offset, and two equal non-pad tokens separated
\* by pad tokens lie in two consecutive char offsets of that symbol.
CollapseBeforeBlankRemoval ==
    /\ Len(frame[1].processed_chars)
           = Cardinality({q \in 1..Len(tokens) :
                 tokens[q] # pad_token /\ (q = 1 \/ tokens[q - 1] # tokens[q])})
    /\ OffsetsWanted =>
           LET offs == frame[1].char_offsets[1]
           IN  /\ \A i \in 1..(Len(tokens) - 1) :
                      (tokens[i] = tokens[i + 1] /\ tokens[i] # pad_token) =>
                          \E k \in 1..Len(offs) : Covers(offs[k], i) /\ Covers(offs[k], i + 1)
               /\ \A i \in 1..Len(tokens) : \A j \in 1..Len(tokens) :
                      BlankSeparated(i, j) =>
                          \E k \in 1..(Len(offs) - 1) :
                              /\ Covers(offs[k], i) /\ Covers(offs[k + 1], j)
                              /\ offs[k].char = frame[1].processed_chars[k]
                              /\ offs[k + 1].char = offs[k].char

\* C6 as stated: collapsing precedes blank removal, and two equal non-pad symbols
\* separated by pad tokens are two separate characters of the char offsets and of the
\* text, for every symbol.
C6_SeparatedSymbolsBothInText ==
    (Converted /\ kwargs[1].group_tokens) =>
        /\ CollapseBeforeBlankRemoval
        /\ \A i \in 1..Len(tokens) : \A j \in 1..Len(tokens) :
               BlankSeparated(i, j) =>
                   Occurrences(frame[1].ret.text, ShownAs(tokens[i])) >= 2

\* C6 amended: collapsing precedes blank removal; two equal non-pad symbols separated
\* by pad tokens are two separate characters of the processed characters and of the
\* char offsets, and both are in the text when the symbol's text form is not whitespace
\* (whitespace at the ends of the text is stripped).
C6_CollapseBeforeBlankRemoval ==
    (Converted /\ kwargs[1].group_tokens) =>
        /\ CollapseBeforeBlankRemoval
        /\ \A i \in 1..Len(tokens) : \A j \in 1..Len(tokens) :
               (BlankSeparated(i, j) /\ \E q \in 1..Len(ShownAs(tokens[i])) :
                                            ShownAs(tokens[i])[q] \notin Whitespace) =>
                   Occurrences(frame[1].ret.text, ShownAs(tokens[i])) >= 2

\* C6 witness: a grouped call with offsets whose tokens hold a letter, pad, the same letter.
C6_Witness ==
    /\ Converted /\ kwargs[1].group_tokens /\ OffsetsWanted
    /\ \E i \in 1..Len(tokens) : \E j \in 1..Len(tokens) :
           BlankSeparated(i, j) /\ tokens[i] = <<"A">>

\* C7: whenever offsets are asked for, the blank-filtered offsets and the processed
\* symbols have the same length: the length check of line 245 never raises, and no
\* result is returned in which the two lengths differ.
C7_NoLengthMismatch ==
    /\ pc # "raised"
    /\ (Converted /\ OffsetsWanted) =>
           Len(frame[1].char_offsets[1]) = Len(frame[1].processed_chars)

\* C7 witness: offsets were asked for, pad tokens were filtered out, characters remain.
C7_Witness ==
    /\ Converted /\ OffsetsWanted
    /\ \E i \in 1..Len(frame[1].chars) : frame[1].chars[i] = pad_token
    /\ Len(frame[1].processed_chars) >= 1

\* C8: the processed symbols are the run symbols without the pad token, in order, with
\* every word-delimiter token replaced by the replacement literal and every other
\* symbol unchanged; no processed symbol is the pad token.
C8_ProcessedChars ==
    Converted =>
        LET cs == frame[1].chars
            processed == frame[1].processed_chars
            solid == {j \in 1..Len(cs) : cs[j] # pad_token}
        IN  /\ Len(processed) = Cardinality(solid)
            /\ \A j \in solid :
                   processed[Cardinality({i \in solid : i <= j})]
                       = IF Some(cs[j]) = word_delimiter_token THEN replace_word_delimiter_char
                         ELSE cs[j]
            /\ \A k \in 1..Len(processed) : processed[k] # pad_token

\* C8 witness: the runs hold a pad token, a delimiter token and another symbol.
C8_Witness ==
    /\ Converted
    /\ \E i \in 1..Len(frame[1].chars) : frame[1].chars[i] = pad_token
    /\ \E i \in 1..Len(frame[1].chars) : Some(frame[1].chars[i]) = word_delimiter_token
    /\ \E i \in 1..Len(frame[1].chars) :
           /\ frame[1].chars[i] # pad_token
           /\ Some(frame[1].chars[i]) # word_delimiter_token

\* C9: in the char offsets returned, entry k carries the k-th processed symbol and the
\* start and end computed for the k-th non-pad run: overwriting the symbol changes no
\* offset value.
C9_SymbolOverwriteKeepsOffsets ==
    (Converted /\ kwargs[1].output_char_offsets) =>
        LET raw == frame[1].offsets[1]
            offs == frame[1].ret.char_offsets[1]
            solid == {j \in 1..Len(raw) : raw[j].char # pad_token}
        IN  /\ Len(offs) = Len(frame[1].processed_chars)
            /\ Len(offs) = Cardinality(solid)
            /\ \A k \in 1..Len(offs) : offs[k].char = frame[1].processed_chars[k]
            /\ \A j \in solid :
                   LET k == Cardinality({i \in solid : i <= j})
                   IN  /\ offs[k].start_offset = raw[j].start_offset
                       /\ offs[k].end_offset = raw[j].end_offset

\* C9 witness: a returned char offset whose symbol was overwritten with the replacement
\* literal and that does not start at 0.
C9_Witness ==
    /\ Converted /\ kwargs[1].output_char_offsets
    /\ \E k \in 1..Len(frame[1].ret.char_offsets[1]) :
           /\ frame[1].ret.char_offsets[1][k].char = replace_word_delimiter_char
           /\ frame[1].ret.char_offsets[1][k].start_offset > 0

\* The processed symbols joined by sep, built left to right.
Joined(processed, sep) ==
    LET J[k \in 0..Len(processed)] ==
            IF k = 0 THEN <<>>
            ELSE IF k = 1 THEN processed[1]
            ELSE J[k - 1] \o sep \o processed[k]
    IN  J[Len(processed)]

\* C10: the text is the processed symbols joined by "" (or by " " with
\* spaces_between_special_tokens), without its leading and trailing whitespace, and
\* lower-cased exactly when do_lower_case is set.
C10_TextAssembly ==
    Converted =>
        LET text == frame[1].ret.text
            joined == Joined(frame[1].processed_chars,
                             IF kwargs[1].spaces_between_special_tokens THEN <<" ">> ELSE <<>>)
        IN  \E a \in 1..(Len(joined) + 1) : \E b \in (a - 1)..Len(joined) :
                /\ \A q \in 1..(a - 1) : joined[q] \in Whitespace
                /\ \A q \in (b + 1)..Len(joined) : joined[q] \in Whitespace
                /\ a <= b => (joined[a] \notin Whitespace /\ joined[b] \notin Whitespace)
                /\ Len(text) = b - a + 1
                /\ \A q \in a..b :
                       IF do_lower_case
                       THEN \/ \E u \in 1..Len(UpperCase) :
                                   joined[q] = UpperCase[u] /\ text[q - a + 1] = LowerCase[u]
                            \/ /\ \A u \in 1..Len(UpperCase) : joined[q] # UpperCase[u]
                               /\ text[q - a + 1] = joined[q]
                       ELSE text[q - a + 1] = joined[q]

\* C10 witness: a lower-casing tokenizer joined with spaces, and strip removed whitespace.
C10_Witness ==
    /\ Converted /\ do_lower_case /\ kwargs[1].spaces_between_special_tokens
    /\ frame[1].ret.text # <<>>
    /\ \E q \in 1..Len(frame[1].ret.text) : frame[1].ret.text[q] = "a"
    /\ Len(frame[1].ret.text)
           < Len(Joined(frame[1].processed_chars, <<" ">>))

\* _get_word_offsets was called (line 260) and convert_tokens_to_string returned.
WordsScanned == Converted /\ kwargs[1].output_word_offsets

\* The maximal runs <<i, j>> of consecutive entries of offs whose char is not d.
WordRuns(offs, d) ==
    {r \in (1..Len(offs)) \X (1..Len(offs)) :
        /\ r[1] <= r[2]
        /\ \A k \in r[1]..r[2] : offs[k].char # d
        /\ r[1] = 1 \/ offs[r[1] - 1].char = d
        /\ r[2] = Len(offs) \/ offs[r[2] + 1].char = d}

\* The k-th run of runs, counted from the left.
NthRun(runs, k) == CHOOSE r \in runs : Cardinality({q \in runs : q[1] < r[1]}) = k - 1

\* The chars of offs[i..j], concatenated.
RunWord(offs, r) == join(<<>>, [m \in 1..(r[2] - r[1] + 1) |-> offs[r[1] + m - 1].char])

\* C11: _get_word_offsets returns, in order, exactly one word offset per maximal run of
\* consecutive non-delimiter characters of the filtered character offsets (a last run
\* that no delimiter follows included), and each word is its run's characters
\* concatenated.
C11_OneWordPerRun ==
    WordsScanned =>
        LET offs == frame[1].char_offsets[1]
            runs == WordRuns(offs, replace_word_delimiter_char)
            words == frame[1].ret.word_offsets[1]
        IN  /\ Len(words) = Cardinality(runs)
            /\ \A k \in 1..Len(words) : words[k].word = RunWord(offs, NthRun(runs, k))

\* Two words, the second one not followed by a delimiter.
C11_Witness ==
    /\ WordsScanned
    /\ Len(frame[1].ret.word_offsets[1]) = 2
    /\ frame[1].char_offsets[1][Len(frame[1].char_offsets[1])].char # replace_word_delimiter_char

\* The entries of offs that make up the k-th word.
WordSpan(k) == NthRun(WordRuns(frame[1].char_offsets[1], replace_word_delimiter_char), k)

\* C12: every word offset starts where the first character offset of its run starts and
\* ends where the last character offset of its run ends, also when delimiter characters
\* follow the run.
C12_WordSpansItsRun ==
    WordsScanned =>
        LET offs == frame[1].char_offsets[1]
            words == frame[1].ret.word_offsets[1]
        IN  \A k \in 1..Len(words) :
                /\ words[k].start_offset = offs[WordSpan(k)[1]].start_offset
                /\ words[k].end_offset = offs[WordSpan(k)[2]].end_offset

\* A word of two character offsets followed by a delimiter.
C12_Witness ==
    /\ WordsScanned
    /\ Len(frame[1].ret.word_offsets[1]) = 1
    /\ WordSpan(1) = <<1, 2>>
    /\ Len(frame[1].char_offsets[1]) = 3

\* C13: no word offset has an empty word and no word holds the delimiter literal,
\* whether the character offsets start with, end with or consist only of delimiters.
C13_WordsSolid ==
    WordsScanned =>
        LET words == frame[1].ret.word_offsets[1]
        IN  \A k \in 1..Len(words) :
                /\ words[k].word # <<>>
                /\ Occurrences(words[k].word, replace_word_delimiter_char) = 0

\* The character offsets start with a delimiter and end with one, around a word.
C13_Witness ==
    /\ WordsScanned
    /\ Len(frame[1].char_offsets[1]) = 3
    /\ frame[1].char_offsets[1][1].char = replace_word_delimiter_char
    /\ frame[1].char_offsets[1][3].char = replace_word_delimiter_char
    /\ Len(frame[1].ret.word_offsets[1]) = 1

\* " ".join(s.split()): whitespace runs become one space, none at the ends.
RECURSIVE squeeze(_)
squeeze(s) ==
    IF s = <<>> THEN <<>>
    ELSE IF s[1] \in Whitespace
    THEN IF Len(s) > 1 /\ s[2] \in Whitespace THEN squeeze(Tail(s))
         ELSE <<" ">> \o squeeze(Tail(s))
    ELSE <<s[1]>> \o squeeze(Tail(s))

NormalizeWhitespace(s) == strip(squeeze(s))

\* The word fields of the returned word offsets, in order.
WordFields == [k \in 1..Len(frame[1].ret.word_offsets[1]) |-> frame[1].ret.word_offsets[1][k].word]

\* C14 as stated: under every configuration and every flag the word fields joined by the
\* replacement literal are the whitespace-normalized text.
C14_WordsRebuildTextAlways ==
    (pc = "returned" /\ kwargs[1].output_word_offsets) =>
        join(replace_word_delimiter_char, WordFields) = NormalizeWhitespace(frame[1].ret.text)

\* C14: when spaces_between_special_tokens is false and the replacement literal is
\* whitespace, the word fields, lower-cased when do_lower_case is set, joined by the
\* replacement literal are the whitespace-normalized text.
C14_WordsRebuildText ==
    (/\ pc = "returned"
     /\ kwargs[1].output_word_offsets
     /\ ~kwargs[1].spaces_between_special_tokens
     /\ \A i \in 1..Len(replace_word_delimiter_char) : replace_word_delimiter_char[i] \in Whitespace) =>
        LET joined == join(replace_word_delimiter_char, WordFields)
        IN  (IF do_lower_case THEN lower(joined) ELSE joined)
                = NormalizeWhitespace(frame[1].ret.text)

\* Two words behind a leading delimiter, lower-cased text.
C14_Witness ==
    /\ WordsScanned
    /\ ~kwargs[1].spaces_between_special_tokens
    /\ replace_word_delimiter_char = <<" ">>
    /\ do_lower_case
    /\ Len(frame[1].char_offsets[1]) = 3
    /\ frame[1].char_offsets[1][1].char = replace_word_delimiter_char
    /\ WordFields = << <<"A", "B">> >>
    /\ frame[1].ret.text = <<"a", "b">>

\* convert_tokens_to_string was handed H,H,E,L,L,O,|,|,W with group_tokens and both
\* offsets flags, by a tokenizer with the default configuration, and returned.
ExampleConverted ==
    /\ pc = "converted"
    /\ tokens = Example
    /\ kwargs[1].group_tokens
    /\ kwargs[1].output_char_offsets
    /\ kwargs[1].output_word_offsets
    /\ ~kwargs[1].spaces_between_special_tokens
    /\ ~do_lower_case
    /\ replace_word_delimiter_char = <<" ">>
    /\ word_delimiter_token = Some(<<"|">>)

\* The runs (H,2),(E,1),(L,2),(O,1),(|,2),(W,1) and the character intervals
\* H[0,2) E[2,3) L[3,5) O[5,6) delimiter[6,8) W[8,9).
ExampleRunsAndIntervals ==
    /\ frame[1].chars = << <<"H">>, <<"E">>, <<"L">>, <<"O">>, <<"|">>, <<"W">> >>
    /\ frame[1].char_repetitions = <<2, 1, 2, 1, 2, 1>>
    /\ frame[1].ret.char_offsets[1] =
           << [char |-> <<"H">>, start_offset |-> 0, end_offset |-> 2],
              [char |-> <<"E">>, start_offset |-> 2, end_offset |-> 3],
              [char |-> <<"L">>, start_offset |-> 3, end_offset |-> 5],
              [char |-> <<"O">>, start_offset |-> 5, end_offset |-> 6],
              [char |-> <<" ">>, start_offset |-> 6, end_offset |-> 8],
              [char |-> <<"W">>, start_offset |-> 8, end_offset |-> 9] >>

\* C15 as stated: the text is "HELLO W" and the words are HELLO[0,6) and W[8,9).
C15_ExampleHELLO ==
    ExampleConverted =>
        /\ ExampleRunsAndIntervals
        /\ frame[1].ret.text = <<"H", "E", "L", "L", "O", " ", "W">>
        /\ frame[1].ret.word_offsets[1] =
               << [word |-> <<"H", "E", "L", "L", "O">>, start_offset |-> 0, end_offset |-> 6],
                  [word |-> <<"W">>, start_offset |-> 8, end_offset |-> 9] >>

\* C15: decoding H,H,E,L,L,O,|,|,W yields the runs (H,2),(E,1),(L,2),(O,1),(|,2),(W,1),
\* the character intervals H[0,2) E[2,3) L[3,5) O[5,6) delimiter[6,8) W[8,9), the text
\* "HELO W" (the two adjacent L collapse into one character) and the word offsets
\* HELO[0,6) and W[8,9).
C15_ExampleHELO ==
    ExampleConverted =>
        /\ ExampleRunsAndIntervals
        /\ frame[1].ret.text = <<"H", "E", "L", "O", " ", "W">>
        /\ frame[1].ret.word_offsets[1] =
               << [word |-> <<"H", "E", "L", "O">>, start_offset |-> 0, end_offset |-> 6],
                  [word |-> <<"W">>, start_offset |-> 8, end_offset |-> 9] >>

\* The example has been decoded.
C15_Witness == ExampleConverted /\ Len(frame[1].ret.word_offsets[1]) = 2

\* C16: an empty token list is not an error: convert_tokens_to_string returns the text ""
\* with char_offsets and word_offsets both the empty list, whatever the flags, and
\* decode of an empty id sequence returns.
C16_EmptyInput ==
    /\ (pc \in {"returned", "raised"} /\ tokens = <<>>) =>
           /\ ~frame[1].raised
           /\ frame[1].ret.text = <<>>
           /\ frame[1].ret.char_offsets = Some(<<>>)
           /\ frame[1].ret.word_offsets = Some(<<>>)
    /\ (pc \in {"returned", "raised"} /\ token_ids = <<>>) =>
           /\ pc = "returned"
           /\ tokens = <<>>
           /\ output[1].text = <<>>

\* decode([]) with no offsets flag has returned.
C16_Witness == pc = "returned" /\ token_ids = <<>> /\ ~OffsetsWanted

\* The token list is not empty and holds only the blank (pad) token.
AllBlank == tokens # <<>> /\ \A i \in 1..Len(tokens) : tokens[i] = pad_token

\* C17: for a non-empty token list of blanks only, with either value of group_tokens, the
\* call returns, the text is "" and the char offsets and the word offsets asked for are
\* empty lists.
C17_AllBlankSuppressed ==
    (pc \in {"returned", "raised"} /\ AllBlank) =>
        /\ pc = "returned"
        /\ frame[1].ret.text = <<>>
        /\ output[1].text = <<>>
        /\ kwargs[1].output_char_offsets => output[1].char_offsets = Some(<<>>)
        /\ kwargs[1].output_word_offsets => output[1].word_offsets = Some(<<>>)

\* Blanks only, not grouped, both offsets asked for.
C17_Witness ==
    /\ pc = "returned"
    /\ AllBlank
    /\ Len(tokens) > 1
    /\ ~kwargs[1].group_tokens
    /\ kwargs[1].output_char_offsets
    /\ kwargs[1].output_word_offsets

\* C18: decode returns a plain string exactly when neither output_char_offsets nor
\* output_word_offsets is set and a SpeechT5CTCTokenizerOutput exactly when at least one
\* is set, for every id sequence, the empty one included.
C18_ResultKind ==
    pc = "returned" =>
        /\ output[1].kind \in {"str", "SpeechT5CTCTokenizerOutput"}
        /\ output[1].kind = "str" <=> ~OffsetsWanted
        /\ output[1].kind = "SpeechT5CTCTokenizerOutput" <=> OffsetsWanted
        /\ DOMAIN output[1] = IF OffsetsWanted
                               THEN {"kind", "text", "char_offsets", "word_offsets"}
                               ELSE {"kind", "text"}

\* decode([]) with only output_char_offsets set returned a structured result.
C18_Witness ==
    /\ pc = "returned"
    /\ token_ids = <<>>
    /\ kwargs[1].output_char_offsets
    /\ ~kwargs[1].output_word_offsets
    /\ output[1].kind = "SpeechT5CTCTokenizerOutput"

\* A decode call has ended and the call before it had the same arguments.
Repeated ==
    /\ pc \in {"returned", "raised"}
    /\ last # None
    /\ last[1].token_ids = token_ids
    /\ last[1].kwargs = kwargs[1]

\* C19 as stated: two decode calls with the same id sequence and the same flags, with no
\* change of the vocabulary between them, end the same way and return the same text, the
\* same char offsets and the same word offsets.
C19_DecodeRepeats ==
    Repeated => (last[1].pc = pc /\ last[1].output = output)

\* The stored delimiter value names none of the symbols toks: its string form, which is
\* what the tokens are compared with, equals no token.
Unmatched(value, toks) == \A i \in 1..Len(toks) : toks[i] # str(value)

\* The word-delimiter token acts the same way at the call before and at this call: it has
\* the same value, or at each call a value that names no symbol of the decoded sequence.
SameDelimiterEffect ==
    \/ last[1]._word_delimiter_token = _word_delimiter_token
    \/ /\ Unmatched(last[1]._word_delimiter_token, last[1].tokens)
       /\ Unmatched(_word_delimiter_token, tokens)

\* C19: two decode calls with the same id sequence and the same flags, with no change of
\* the vocabulary between them, end the same way and return the same text, the same char
\* offsets and the same word offsets when the word-delimiter token has the same value at
\* both calls, and also when it was assigned a different value between them and at each
\* call names no symbol of the decoded sequence.
C19_DecodeRepeatsSameDelimiterEffect ==
    (Repeated /\ SameDelimiterEffect) => (last[1].pc = pc /\ last[1].output = output)

\* The second of two equal calls on a sequence that holds the symbol "|": the first was
\* made with no delimiter set, the second after word_delimiter_token_id stored the id 2;
\* both returned the text "A|" as one word.
C19_Witness ==
    /\ Repeated
    /\ last[1]._word_delimiter_token = NoneValue
    /\ _word_delimiter_token = IntValue(2)
    /\ pc = "returned"
    /\ token_ids = <<3, 2>>
    /\ kwargs[1].output_char_offsets
    /\ kwargs[1].output_word_offsets
    /\ output[1].text = <<"A", "|">>
    /\ last[1].output = output
    /\ Len(output[1].word_offsets[1]) = 1

\* A step that is one decode or batch_decode call, from its start to its return or raise.
CallStep == pc = "idle" /\ pc' \in {"returned", "raised", "batch_returned", "batch_raised"}

\* C20: a decode or batch_decode call leaves the tokenizer as it found it, whether the call
\* returns or raises: the vocabulary (encoder, decoder), the added-token maps, the word
\* delimiter token, the replacement literal and do_lower_case are the same after the call.
C20_CallsKeepTokenizer ==
    [][CallStep =>
          /\ encoder' = encoder
          /\ decoder' = decoder
          /\ added_tokens_encoder' = added_tokens_encoder
          /\ added_tokens_decoder' = added_tokens_decoder
          /\ _word_delimiter_token' = _word_delimiter_token
          /\ replace_word_delimiter_char' = replace_word_delimiter_char
          /\ do_lower_case' = do_lower_case]_vars

\* A batch_decode call raised: an empty batch with an offsets flag.
C20_Witness == pc = "batch_raised" /\ sequences = <<>> /\ OffsetsWanted

\* What decode returns for the i-th sequence of the batch, with the batch's flags.
DecodeOf(i) == _decode(sequences[i], kwargs[1]).output[1]

\* C21: batch_decode is decode applied to every sequence, in order: the call returns;
\* without an offsets flag the i-th string is decode(sequence i); with an offsets flag
\* the i-th entry of every field is that field of decode(sequence i); for every batch,
\* those that mix empty and non-empty sequences included.
C21_BatchIsRepeatedDecode ==
    pc \in {"batch_returned", "batch_raised"} =>
        /\ pc = "batch_returned"
        /\ Len(output[1].text) = Len(sequences)
        /\ \A i \in 1..Len(sequences) : output[1].text[i] = DecodeOf(i).text
        /\ OffsetsWanted =>
               \A i \in 1..Len(sequences) : \A k \in {"char_offsets", "word_offsets"} :
                   IF output[1][k] = None THEN DecodeOf(i)[k] = None
                   ELSE DecodeOf(i)[k] # None /\ output[1][k][1][i] = DecodeOf(i)[k][1]

\* C22: an id with no vocabulary entry is not an error: decode returns, the id resolves
\* to the unknown-token symbol, and every id with an entry resolves to the vocabulary's
\* symbol for it.
C22_UnknownIdResolvesToUnk ==
    (pc \in {"returned", "raised"} /\ ~kwargs[1].skip_special_tokens) =>
        /\ pc = "returned"
        /\ Len(tokens) = Len(token_ids)
        /\ \A i \in 1..Len(token_ids) :
               /\ tokens[i] = _convert_id_to_token(token_ids[i])
               /\ token_ids[i] \in DOMAIN decoder => tokens[i] = decoder[token_ids[i]]
               /\ token_ids[i] \notin DOMAIN decoder => tokens[i] = unk_token

\* An id without an entry was decoded next to one with an entry.
C22_Witness ==
    /\ pc = "returned"
    /\ ~kwargs[1].skip_special_tokens
    /\ \E i \in 1..Len(token_ids) : token_ids[i] \notin DOMAIN decoder
    /\ \E i \in 1..Len(token_ids) : token_ids[i] \in DOMAIN decoder /\ tokens[i] = <<"A">>
    /\ output[1].text = <<"A", "<", "u", "n", "k", ">">>

\* A step that is one _add_tokens call.
AddStep == pc = "idle" /\ pc' = "added"

\* The argument of the call, lower-cased when do_lower_case is set and the tokens are not
\* special.
Normalized ==
    [i \in 1..Len(tokens') |->
        IF ~kwargs'[1].special_tokens /\ do_lower_case THEN lower(tokens'[i]) ELSE tokens'[i]]

\* The positions of the argument whose token is not the unknown token, resolves to the
\* unknown token's id before the call, and does not occur at an earlier position.
Addable ==
    {i \in 1..Len(Normalized) :
        /\ Normalized[i] # unk_token
        /\ convert_tokens_to_ids(Normalized[i]) = convert_tokens_to_ids(unk_token)
        /\ \A j \in 1..(i - 1) : Normalized[j] # Normalized[i]}

\* C23: _add_tokens adds exactly the tokens of its argument (lower-cased first when
\* do_lower_case is set and the tokens are not special) that are not the unknown token,
\* resolve to the unknown token's id and did not occur earlier in the list; the k-th
\* added token (k from 0) gets id L + k, L the tokenizer's length before the call; the
\* call returns the number of tokens added.
C23_AddTokensContract ==
    [][AddStep =>
          /\ DOMAIN added_tokens_encoder'
                 = DOMAIN added_tokens_encoder \cup {Normalized[i] : i \in Addable}
          /\ \A i \in Addable :
                 added_tokens_encoder'[Normalized[i]]
                     = __len__ + Cardinality({j \in Addable : j < i})
          /\ \A t \in DOMAIN added_tokens_encoder \ {Normalized[i] : i \in Addable} :
                 added_tokens_encoder'[t] = added_tokens_encoder[t]
          /\ \A i \in Addable :
                 added_tokens_decoder'[__len__ + Cardinality({j \in Addable : j < i})]
                     = Normalized[i]
          /\ output' = Some(Cardinality(Addable))]_vars

\* A token given twice was added once, lower-cased, to a tokenizer that had an added
\* token already.
C23_Witness ==
    /\ pc = "added"
    /\ output = Some(1)
    /\ tokens = << <<"D", "E">>, <<"D", "E">> >>
    /\ DOMAIN added_tokens_encoder = {<<"C">>, <<"d", "e">>}
    /\ added_tokens_encoder[<<"d", "e">>] = 6

\* The symbols of the vocabulary and the added ones.
Symbols == DOMAIN encoder \cup DOMAIN added_tokens_encoder

\* Distinct symbols have distinct ids, every symbol's id resolves back to the symbol, and
\* the added-token maps are inverses of each other.
OneToOne ==
    /\ \A s \in Symbols : \A t \in Symbols :
           s # t => convert_tokens_to_ids(s) # convert_tokens_to_ids(t)
    /\ \A s \in Symbols : convert_ids_to_tokens(<<convert_tokens_to_ids(s)>>, FALSE) = <<s>>
    /\ DOMAIN added_tokens_decoder = {added_tokens_encoder[t] : t \in DOMAIN added_tokens_encoder}
    /\ \A t \in DOMAIN added_tokens_encoder : added_tokens_decoder[added_tokens_encoder[t]] = t

\* An _add_tokens step leaves every symbol it found with the id it had.
AppendOnly ==
    AddStep =>
        /\ encoder' = encoder
        /\ \A t \in DOMAIN added_tokens_encoder :
               t \in DOMAIN added_tokens_encoder' /\ added_tokens_encoder'[t] = added_tokens_encoder[t]

\* C24: after any sequence of _add_tokens calls on a tokenizer loaded from a vocabulary
\* with distinct ids for distinct symbols, the id-symbol mapping is one-to-one in both
\* directions, the added-token maps are inverses, and every call leaves the ids of the
\* symbols it found unchanged.
C24_MappingStaysOneToOne == []OneToOne /\ [][AppendOnly]_vars

\* convert_tokens_to_string was called on its own with a non-empty token list and offsets
\* asked for, and returned.
OffsetsConverted == pc = "converted" /\ tokens # <<>> /\ OffsetsWanted

\* C25: with group_tokens false nothing is merged: every position i (from 0) whose token
\* is not the blank yields exactly one char offset, with start_offset i and end_offset
\* i + 1, also when the neighbouring positions hold the same token; the blank positions
\* yield none.
C25_UngroupedOnePerPosition ==
    (OffsetsConverted /\ ~kwargs[1].group_tokens) =>
        LET offs == frame[1].char_offsets[1]
            solid == {i \in 1..Len(tokens) : tokens[i] # pad_token}
        IN  /\ Len(offs) = Cardinality(solid)
            /\ \A i \in solid :
                   Cardinality({k \in 1..Len(offs) :
                       offs[k].start_offset = i - 1 /\ offs[k].end_offset = i}) = 1

\* Not grouped: two equal neighbours behind a blank.
C25_Witness ==
    /\ OffsetsConverted
    /\ ~kwargs[1].group_tokens
    /\ tokens = <<pad_token, <<"A">>, <<"A">> >>
    /\ Len(frame[1].char_offsets[1]) = 2

\* C26: every char offset left after the blank filter has
\* 0 <= start_offset < end_offset <= number of tokens, and of two consecutive char
\* offsets the first ends no later than the second starts.
C26_OffsetsBoundedAndOrdered ==
    OffsetsConverted =>
        LET offs == frame[1].char_offsets[1]
        IN  /\ \A k \in 1..Len(offs) :
                   /\ 0 <= offs[k].start_offset
                   /\ offs[k].start_offset < offs[k].end_offset
                   /\ offs[k].end_offset <= Len(tokens)
            /\ \A k \in 1..(Len(offs) - 1) : offs[k].end_offset <= offs[k + 1].start_offset

\* Two char offsets with the gap of a removed blank run between them.
C26_Witness ==
    /\ OffsetsConverted
    /\ Len(frame[1].char_offsets[1]) = 2
    /\ frame[1].char_offsets[1][1].end_offset < frame[1].char_offsets[1][2].start_offset
    /\ frame[1].char_offsets[1][2].end_offset = Len(tokens)

\* convert_tokens_to_string was called on its own with a non-empty token list and word
\* offsets asked for, and returned.
WordsConverted == pc = "converted" /\ tokens # <<>> /\ kwargs[1].output_word_offsets

\* offs without its leading and trailing delimiter entries and with only the first entry
\* of every run of delimiter entries between two words.
WithoutIdleDelimiters(offs, d) ==
    LET keep == {k \in 1..Len(offs) :
                    \/ offs[k].char # d
                    \/ /\ k > 1
                       /\ offs[k - 1].char # d
                       /\ \E m \in (k + 1)..Len(offs) : offs[m].char # d}
        nth(q) == CHOOSE k \in keep : Cardinality({j \in keep : j <= k}) = q
    IN  [q \in 1..Cardinality(keep) |-> offs[nth(q)]]

\* C27: in the word scan, which starts in state SPACE, delimiter characters add nothing:
\* leading delimiters, trailing delimiters and the further delimiters of a run create no
\* word and change neither the text nor the offsets of any word, so the words are those
\* of the character offsets without these delimiters; delimiters alone give no word.
C27_DelimitersAddNothing ==
    WordsConverted =>
        LET offs == frame[1].char_offsets[1]
            d == replace_word_delimiter_char
            words == frame[1].ret.word_offsets[1]
        IN  /\ words = _get_word_offsets(WithoutIdleDelimiters(offs, d), d)
            /\ (\A k \in 1..Len(offs) : offs[k].char = d) => words = <<>>
            /\ Len(words) <= Cardinality({k \in 1..Len(offs) : offs[k].char # d})

\* A word between a leading delimiter and a trailing one.
C27_Witness ==
    /\ WordsConverted
    /\ Len(frame[1].char_offsets[1]) = 3
    /\ frame[1].char_offsets[1][1].char = replace_word_delimiter_char
    /\ frame[1].char_offsets[1][3].char = replace_word_delimiter_char
    /\ frame[1].ret.word_offsets[1] = << [word |-> <<"A">>, start_offset |-> 1, end_offset |-> 2] >>

\* C28 as stated: for every token list, the empty one included, the returned char_offsets
\* is a list exactly when output_char_offsets is set and None otherwise, and the returned
\* word_offsets is a list exactly when output_word_offsets is set and None otherwise.
C28_FieldsFollowFlagsAlways ==
    pc = "converted" =>
        /\ frame[1].ret.char_offsets # None <=> kwargs[1].output_char_offsets
        /\ frame[1].ret.word_offsets # None <=> kwargs[1].output_word_offsets

\* C28: for every non-empty token list the returned char_offsets is a list exactly when
\* output_char_offsets is set and None otherwise, and the returned word_offsets is a list
\* exactly when output_word_offsets is set and None otherwise; for the empty token list
\* both are the empty list whatever the flags.
C28_FieldsFollowFlags ==
    pc = "converted" =>
        IF tokens = <<>>
        THEN /\ frame[1].ret.char_offsets = Some(<<>>)
             /\ frame[1].ret.word_offsets = Some(<<>>)
        ELSE /\ frame[1].ret.char_offsets # None <=> kwargs[1].output_char_offsets
             /\ frame[1].ret.word_offsets # None <=> kwargs[1].output_word_offsets

\* Only word offsets were asked for, of a non-empty token list.
C28_Witness ==
    /\ pc = "converted"
    /\ tokens # <<>>
    /\ kwargs[1].output_word_offsets
    /\ ~kwargs[1].output_char_offsets
    /\ frame[1].ret.char_offsets = None
    /\ frame[1].char_offsets # None
    /\ frame[1].ret.word_offsets # None

\* What convert_tokens_to_string returns for the tokens and the settings of the call that
\* has ended, with the offsets flags c and w instead of the call's.
WithFlags(c, w) ==
    convert_tokens_to_string(tokens, kwargs[1].group_tokens,
        kwargs[1].spaces_between_special_tokens, c, w, do_lower_case,
        replace_word_delimiter_char).ret

\* C29: the offsets flags only select what is reported: for the same tokens and the same
\* other settings the text is the same under all four combinations of the flags, the word
\* offsets returned with output_word_offsets are the same with and without
\* output_char_offsets, and the char offsets returned with output_char_offsets are the
\* same with and without output_word_offsets.
C29_FlagsOnlySelect ==
    pc = "converted" =>
        /\ \A c \in BOOLEAN : \A w \in BOOLEAN : WithFlags(c, w).text = frame[1].ret.text
        /\ kwargs[1].output_word_offsets =>
               \A c \in BOOLEAN : WithFlags(c, TRUE).word_offsets = frame[1].ret.word_offsets
        /\ kwargs[1].output_char_offsets =>
               \A w \in BOOLEAN : WithFlags(TRUE, w).char_offsets = frame[1].ret.char_offsets

\* Only word offsets were asked for, and there is a word of two characters around a
\* removed blank.
C29_Witness ==
    /\ WordsConverted
    /\ ~kwargs[1].output_char_offsets
    /\ Len(frame[1].ret.word_offsets[1]) = 1
    /\ Len(frame[1].ret.word_offsets[1][1].word) = 2
    /\ Len(frame[1].processed_chars) < Len(frame[1].chars)

\* C30: the word offsets are ordered and separated: every word has
\* start_offset < end_offset, and of two consecutive words the first ends before the
\* second starts, at least one delimiter lying between them.
C30_WordsOrderedAndSeparated ==
    WordsConverted =>
        LET words == frame[1].ret.word_offsets[1]
        IN  /\ \A k \in 1..Len(words) : words[k].start_offset < words[k].end_offset
            /\ \A k \in 1..(Len(words) - 1) : words[k].end_offset < words[k + 1].start_offset

\* Two words of the example, two delimiter positions apart.
C30_Witness ==
    /\ WordsConverted
    /\ Len(frame[1].ret.word_offsets[1]) = 2
    /\ frame[1].ret.word_offsets[1][1].end_offset + 2 = frame[1].ret.word_offsets[1][2].start_offset
    /\ frame[1].ret.word_offsets[1][1].start_offset + 1 < frame[1].ret.word_offsets[1][1].end_offset
====
